---- MODULE Spec2Model ----
(***************************************************************************)
(* Model of s3read_seeker.go: a seekable stream over the concatenation of  *)
(* several S3 objects.  Object.ReadAt is one ranged GetObject followed by  *)
(* io.ReadFull; S3ReadSeeker.ReadAt walks the objects; Read and Seek run   *)
(* under the mutex mu and use the cursor globalOffset.                     *)
(***************************************************************************)
EXTENDS Integers, Sequences, FiniteSets, TLC

\* ------------------------------------------------------------------ bounds
MaxSegs   == 3    \* objects in a key group
MaxSize   == 2    \* size of one object
MaxLen    == 3    \* len(p) of a caller's buffer
MaxTotal  == 4    \* total size of the streams Read and Seek are run on
MaxPast   == 1    \* how far past the end a Seek or ReadAt may point

\* io.SeekStart, io.SeekCurrent, io.SeekEnd
SeekStart   == 0
SeekCurrent == 1
SeekEnd     == 2

Callers == {"c1", "c2"}

Min(a, b) == IF a < b THEN a ELSE b
Max(a, b) == IF a > b THEN a ELSE b

\* ------------------------------------------------------------ data values
\* The byte stored at local offset j of the i-th object; None is a buffer
\* slot nobody wrote.
Byte(i, j) == <<i, j>>
None == <<0, 0>>

\* make([]byte, L)
NewBuf(L) == [k \in 1..L |-> None]

\* What the storage service answers to one ranged GetObject: a transport
\* error, or a body holding the first avail bytes of the requested range.
NoFault == [failAt |-> 0, kind |-> "body", avail |-> 0]
Plans ==
    {NoFault} \cup
    [failAt : 1..MaxSegs, kind : {"err"}, avail : {0}] \cup
    [failAt : 1..MaxSegs, kind : {"body"}, avail : 0..(MaxLen - 1)]

\* io.ReadFull(body, p) with len(p) = plen and a body of avail bytes
ReadFull(plen, avail) ==
    IF plen = 0 THEN [n |-> 0, err |-> "nil"]
    ELSE IF avail >= plen THEN [n |-> plen, err |-> "nil"]
    ELSE IF avail = 0 THEN [n |-> 0, err |-> "EOF"]
    ELSE [n |-> avail, err |-> "ErrUnexpectedEOF"]

\* Bytes of the inclusive range [lo, hi] that exist in an object of size
\* bytes (the service cuts a range at the end of the object).
RangeLen(size, lo, hi) == Max(0, Min(hi, size - 1) - lo + 1)

\* Object.ReadAt(p, off) on the i-th object, len(p) = plen; resp is the
\* service's answer: "err", or "body" cut to resp.avail bytes when failing.
ObjectReadAt(i, size, plen, off, failing, resp) ==
    IF failing /\ resp.kind = "err"
    THEN [m |-> 0, err |-> "transport", data |-> <<>>]
    ELSE LET full == RangeLen(size, off, off + plen - 1)
             body == IF failing THEN Min(resp.avail, full) ELSE full
             got  == ReadFull(plen, body)
         IN  [m |-> got.n, err |-> got.err,
              data |-> [k \in 1..got.n |-> Byte(i, off + k - 1)]]

\* copy of data into p starting at index pOff (0-based)
WriteAt(p, pOff, data) ==
    [k \in 1..Len(p) |->
        IF k > pOff /\ k <= pOff + Len(data) THEN data[k - pOff] ELSE p[k]]

\* One record of the fetch log: object index, inclusive range, and the
\* half-open slice [dlo, dhi) of p handed to the fetch.
Fetch(i, lo, hi, dlo, dhi) ==
    [obj |-> i, lo |-> lo, hi |-> hi, dlo |-> dlo, dhi |-> dhi]

\* an object is skipped only when the offset is beyond its last byte + 1
SkipsStrict(off, size) == off > size

\* an empty object is not skipped
SkipsNonEmptyOnly(off, size) == size > 0 /\ off >= size

\* if off >= obj.size: the object lies wholly before the offset
Skips(off, size) == off >= size

\* a range ending on the last byte of the object counts as crossing it
CrossesOffByOne(end, size) == end + 1 >= size

\* if end+1 > obj.size: the rest of p reaches past the end of the object
Crosses(end, size) == end + 1 > size

\* an io.EOF from a fetch taken for success
FailedUnlessEOF(err) == err \notin {"nil", "EOF"}

\* if err != nil after obj.ReadAt
Failed(err) == err # "nil"

\* S3ReadSeeker.ReadAt: the loop from object i on, st holding the locals
\* off, pOff, n, the buffer p and the log of fetches issued so far.
RECURSIVE ReadAtLoop(_, _, _, _)
ReadAtLoop(objs, i, st, plan) ==
    IF i > Len(objs)
    THEN [n |-> 0, err |-> "EOF", p |-> st.p, fetches |-> st.fetches]
    ELSE
    LET size == objs[i]
        ord  == Len(st.fetches) + 1
        failing == plan.failAt = ord
    IN
    IF Skips(st.off, size)
    THEN ReadAtLoop(objs, i + 1, [st EXCEPT !.off = @ - size], plan)
    ELSE
    LET end == st.off + (Len(st.p) - st.pOff) - 1 IN
    IF Crosses(end, size)
    THEN LET newPOff == st.pOff + (size - st.off)
             r   == ObjectReadAt(i, size, newPOff - st.pOff, st.off, failing, plan)
             log == Append(st.fetches,
                           Fetch(i, st.off, st.off + (newPOff - st.pOff) - 1,
                                 st.pOff, newPOff))
             p2  == WriteAt(st.p, st.pOff, r.data)
         IN  IF Failed(r.err)
             THEN [n |-> st.n, err |-> r.err, p |-> p2, fetches |-> log]
             ELSE ReadAtLoop(objs, i + 1,
                             [off |-> 0, pOff |-> newPOff, n |-> st.n + r.m,
                              p |-> p2, fetches |-> log], plan)
    ELSE LET r   == ObjectReadAt(i, size, Len(st.p) - st.pOff, st.off, failing, plan)
             log == Append(st.fetches,
                           Fetch(i, st.off, end, st.pOff, Len(st.p)))
             p2  == WriteAt(st.p, st.pOff, r.data)
         IN  IF Failed(r.err)
             THEN [n |-> st.n, err |-> r.err, p |-> p2, fetches |-> log]
             ELSE [n |-> st.n + r.m, err |-> "nil", p |-> p2, fetches |-> log]

ReadAt(objs, L, off, plan) ==
    ReadAtLoop(objs, 1,
               [off |-> off, pOff |-> 0, n |-> 0, p |-> NewBuf(L),
                fetches |-> <<>>], plan)

\* The answers the service can give during ReadAt(p, off): every fetch
\* answered in full, or the failAt-th fetch really failing.
Answers(objs, L, off) ==
    {plan \in Plans :
        \/ plan = NoFault
        \/ ReadAt(objs, L, off, plan) # ReadAt(objs, L, off, NoFault)}

\* newOffset = obj.size in place of +=: the size of the last object
SumSizesOverwrites(objs) ==
    IF objs = <<>> THEN 0 ELSE objs[Len(objs)]

\* for _, obj := range s.objectMembers { newOffset += obj.size }
RECURSIVE SumSizes(_)
SumSizes(objs) ==
    IF objs = <<>> THEN 0 ELSE objs[1] + SumSizes(Tail(objs))

\* io.SeekStart handled like io.SeekCurrent
NewOffsetStartIsRelative(objs, cur, offset, whence) ==
    CASE whence = SeekStart   -> cur + offset
      [] whence = SeekCurrent -> cur + offset
      [] whence = SeekEnd     -> SumSizes(objs) + offset
      [] OTHER                -> 0

\* Seek's switch on whence: the new cursor computed from the cursor cur
NewOffset(objs, cur, offset, whence) ==
    CASE whence = SeekStart   -> offset
      [] whence = SeekCurrent -> cur + offset
      [] whence = SeekEnd     -> SumSizes(objs) + offset
      [] OTHER                -> 0

\* the cursor assigned before the new offset is validated
SeekResultCommitsEarly(objs, cur, offset, whence) ==
    LET newOffset == NewOffset(objs, cur, offset, whence) IN
    IF whence \notin {SeekStart, SeekCurrent, SeekEnd}
    THEN [globalOffset |-> cur, ret |-> 0, err |-> "invalid_whence"]
    ELSE IF newOffset < 0
    THEN [globalOffset |-> newOffset, ret |-> 0, err |-> "invalid_offset"]
    ELSE [globalOffset |-> newOffset, ret |-> newOffset, err |-> "nil"]

\* a Seek without the check for a negative offset
SeekResultUnchecked(objs, cur, offset, whence) ==
    LET newOffset == NewOffset(objs, cur, offset, whence) IN
    IF whence \notin {SeekStart, SeekCurrent, SeekEnd}
    THEN [globalOffset |-> cur, ret |-> 0, err |-> "invalid_whence"]
    ELSE [globalOffset |-> newOffset, ret |-> newOffset, err |-> "nil"]

\* Seek from the cursor cur: the cursor it leaves and what it returns
SeekResult(objs, cur, offset, whence) ==
    LET newOffset == NewOffset(objs, cur, offset, whence) IN
    IF whence \notin {SeekStart, SeekCurrent, SeekEnd}
    THEN [globalOffset |-> cur, ret |-> 0, err |-> "invalid_whence"]
    ELSE IF newOffset < 0
    THEN [globalOffset |-> cur, ret |-> 0, err |-> "invalid_offset"]
    ELSE [globalOffset |-> newOffset, ret |-> newOffset, err |-> "nil"]

\* s.globalOffset = int64(n) in place of +=
AdvanceOverwrites(cur, n) == n

\* s.globalOffset += int64(n)
Advance(cur, n) == cur + n

\* ------------------------------------------------------------------ state
VARIABLES
    objectMembers,  \* s.objectMembers: the sizes of the objects, in key order
    globalOffset,   \* s.globalOffset: the cursor
    mu,             \* s.mu: "free" or the caller holding it
    pc,             \* where each caller is in its call
    frame,          \* each caller's arguments, locals and results
    run,            \* history: the Reads made in a row since the cursor was 0
    ctor            \* NewS3ReadSeeker: the keys' sizes in the bucket, the size
                    \* lookups made, and what the constructor returned

vars == <<objectMembers, globalOffset, mu, pc, frame, run, ctor>>

\* inputs of the calls
Lens      == 0..MaxLen
\* the offsets callers use on a stream: up to MaxPast beyond its end
Limit(objs) == SumSizes(objs) + MaxPast
\* Seek arguments: every cursor from the start and one step before it, steps
\* back and forth from the current position, the end, the start and one step
\* around them from the end, and whence values Seek does not know.
Seeks(objs) ==
    (((0 - 1)..Limit(objs)) \X {SeekStart})
    \cup ({0 - Limit(objs), 0 - 1, 0, 1} \X {SeekCurrent})
    \cup ({0 - SumSizes(objs) - 1, 0 - SumSizes(objs), 0 - 1, 0, 1} \X {SeekEnd})
    \cup {<<0, 3>>, <<1, 0 - 1>>}
SizeLists == UNION {[1..k -> 0..MaxSize] : k \in 0..MaxSegs}

NoFrame ==
    [op |-> "none", L |-> 0, off |-> 0, whence |-> 0, cur |-> 0,
     n |-> 0, err |-> "nil", p |-> <<>>, fetches |-> <<>>, ret |-> 0,
     plan |-> NoFault, after |-> 0 - 1, held |-> "free"]

\* The frame of a new call.  after is x when the call this caller completed
\* just before was a successful Seek(x, io.SeekStart), and -1 otherwise.
NewFrame(c, op, L, off, whence) ==
    [NoFrame EXCEPT !.op = op, !.L = L, !.off = off, !.whence = whence,
        !.after = IF /\ op = "Read" /\ frame[c].op = "Seek" /\ frame[c].err = "nil"
                     /\ frame[c].whence = SeekStart
                  THEN frame[c].off ELSE 0 - 1]

\* The history when the cursor has just been set: it is on when the cursor
\* is 0, and then collects up to three successful Reads with len(p) >= 1
\* made in a row.  A Seek call, a failed Read and a fourth Read turn it off.
NoRun(cursor) == [on |-> cursor = 0, bufs |-> <<>>]

\* the stream as NewS3ReadSeeker returns it
\* the constructor's record once it has returned the stream over objs
Built(objs) ==
    [keys |-> objs, failAt |-> 0, heads |-> [k \in 1..Len(objs) |-> k],
     state |-> "ok"]

Init ==
    /\ objectMembers \in SizeLists
    /\ ctor = Built(objectMembers)
    /\ globalOffset = 0
    /\ mu = "free"
    /\ pc = [c \in Callers |-> "idle"]
    /\ frame = [c \in Callers |-> NoFrame]
    /\ run = NoRun(0)

\* a Lock that does not wait for the holder
LockNoWait(c) == mu' = c

\* s.mu.Lock() and the deferred s.mu.Unlock()
Lock(c) == mu = "free" /\ mu' = c

\* a return path that leaves without unlocking
UnlockForgotten(c) == mu' = mu

Unlock(c) == mu' = "free"

\* ------------------------------------------------------------------- Read
CallRead(c, L) ==
    /\ pc[c] \in {"idle", "done"}
    /\ pc' = [pc EXCEPT ![c] = "Read_lock"]
    /\ frame' = [frame EXCEPT ![c] = NewFrame(c, "Read", L, 0, 0)]
    /\ UNCHANGED <<ctor, objectMembers, globalOffset, mu, run>>

ReadLock(c) ==
    /\ pc[c] = "Read_lock"
    /\ Lock(c)
    /\ pc' = [pc EXCEPT ![c] = "Read_body"]
    /\ UNCHANGED <<ctor, objectMembers, globalOffset, frame, run>>

\* n, err = s.ReadAt(p, s.globalOffset)
ReadBody(c) ==
    /\ pc[c] = "Read_body"
    /\ \E plan \in Answers(objectMembers, frame[c].L, globalOffset) :
         LET r == ReadAt(objectMembers, frame[c].L, globalOffset, plan) IN
         frame' = [frame EXCEPT ![c].off = globalOffset, ![c].cur = globalOffset,
                                ![c].n = r.n, ![c].err = r.err, ![c].p = r.p,
                                ![c].fetches = r.fetches, ![c].plan = plan]
    /\ pc' = [pc EXCEPT ![c] = "Read_commit"]
    /\ UNCHANGED <<ctor, objectMembers, globalOffset, mu, run>>

\* the history after a Read by c returned
RunAfterRead(c) ==
    IF frame[c].err = "nil" /\ frame[c].L = 0 THEN run
    ELSE IF frame[c].err = "nil" /\ run.on /\ Len(run.bufs) < 3
    THEN [run EXCEPT !.bufs =
            Append(@, [len |-> frame[c].L,
                       bytes |-> SubSeq(frame[c].p, 1, frame[c].n)])]
    ELSE [on |-> FALSE, bufs |-> <<>>]

\* a Read that adds n to the cursor before it looks at err
ReadReturnAlwaysAdvances(c) ==
    /\ pc[c] = "Read_commit"
    /\ globalOffset' = Advance(globalOffset, frame[c].n)
    /\ Unlock(c)
    /\ run' = RunAfterRead(c)
    /\ pc' = [pc EXCEPT ![c] = "done"]
    /\ UNCHANGED <<ctor, objectMembers, frame>>

\* if err != nil return; s.globalOffset += int64(n); return; Unlock
ReadReturn(c) ==
    /\ pc[c] = "Read_commit"
    /\ globalOffset' = IF frame[c].err # "nil" THEN globalOffset
                       ELSE Advance(globalOffset, frame[c].n)
    /\ Unlock(c)
    /\ run' = RunAfterRead(c)
    /\ pc' = [pc EXCEPT ![c] = "done"]
    /\ UNCHANGED <<ctor, objectMembers, frame>>

\* ----------------------------------------------------------------- ReadAt
CallReadAt(c, L, off) ==
    /\ pc[c] \in {"idle", "done"}
    /\ pc' = [pc EXCEPT ![c] = "ReadAt_body"]
    /\ frame' = [frame EXCEPT ![c] = NewFrame(c, "ReadAt", L, off, 0)]
    /\ UNCHANGED <<ctor, objectMembers, globalOffset, mu, run>>

\* a ReadAt that advances the cursor as Read does
ReadAtBodyMovesCursor(c) ==
    /\ pc[c] = "ReadAt_body"
    /\ \E plan \in Answers(objectMembers, frame[c].L, frame[c].off) :
         LET r == ReadAt(objectMembers, frame[c].L, frame[c].off, plan) IN
         /\ frame' = [frame EXCEPT ![c].cur = globalOffset, ![c].held = mu,
                                   ![c].n = r.n, ![c].err = r.err, ![c].p = r.p,
                                   ![c].fetches = r.fetches, ![c].plan = plan]
         /\ globalOffset' = globalOffset + r.n
    /\ pc' = [pc EXCEPT ![c] = "done"]
    /\ UNCHANGED <<ctor, objectMembers, mu, run>>

ReadAtBody(c) ==
    /\ pc[c] = "ReadAt_body"
    /\ \E plan \in Answers(objectMembers, frame[c].L, frame[c].off) :
         LET r == ReadAt(objectMembers, frame[c].L, frame[c].off, plan) IN
         frame' = [frame EXCEPT ![c].cur = globalOffset, ![c].held = mu,
                                ![c].n = r.n, ![c].err = r.err, ![c].p = r.p,
                                ![c].fetches = r.fetches, ![c].plan = plan]
    /\ pc' = [pc EXCEPT ![c] = "done"]
    /\ UNCHANGED <<ctor, objectMembers, globalOffset, mu, run>>

\* ------------------------------------------------------------------- Seek
CallSeek(c, offset, whence) ==
    /\ pc[c] \in {"idle", "done"}
    /\ whence = SeekCurrent => globalOffset + offset <= Limit(objectMembers)
    /\ whence = SeekEnd => offset <= MaxPast
    /\ pc' = [pc EXCEPT ![c] = "Seek_lock"]
    /\ frame' = [frame EXCEPT ![c] = NewFrame(c, "Seek", 0, offset, whence)]
    /\ run' = [on |-> FALSE, bufs |-> <<>>]
    /\ UNCHANGED <<ctor, objectMembers, globalOffset, mu>>

SeekLock(c) ==
    /\ pc[c] = "Seek_lock"
    /\ Lock(c)
    /\ pc' = [pc EXCEPT ![c] = "Seek_body"]
    /\ UNCHANGED <<ctor, objectMembers, globalOffset, frame, run>>

SeekBody(c) ==
    /\ pc[c] = "Seek_body"
    /\ LET r == SeekResult(objectMembers, globalOffset, frame[c].off, frame[c].whence) IN
         /\ globalOffset' = r.globalOffset
         /\ frame' = [frame EXCEPT ![c].cur = globalOffset, ![c].ret = r.ret,
                                   ![c].err = r.err]
         /\ run' = NoRun(r.globalOffset)
    /\ Unlock(c)
    /\ pc' = [pc EXCEPT ![c] = "done"]
    /\ UNCHANGED <<ctor, objectMembers>>

\* ------------------------------------------------------- specifications
\* one step of a Read or Seek call by c, its inputs drawn from the given sets
CursorStep(c, lens, seeks) ==
    \/ \E L \in lens : CallRead(c, L)
    \/ ReadLock(c)
    \/ ReadBody(c)
    \/ ReadReturn(c)
    \/ \E sk \in seeks : CallSeek(c, sk[1], sk[2])
    \/ SeekLock(c)
    \/ SeekBody(c)

\* one step of a ReadAt call by c
ReadAtStep(c, reads) ==
    \/ \E rd \in reads : CallReadAt(c, rd[1], rd[2])
    \/ ReadAtBody(c)

\* one caller using the cursor: Read and Seek calls one after the other, on
\* a stream of at most MaxTotal bytes
SeqInit == Init /\ SumSizes(objectMembers) <= MaxTotal
Next == CursorStep("c1", Lens, Seeks(objectMembers))
Spec == SeqInit /\ [][Next]_vars

\* one caller of ReadAt
ReadAtNext == ReadAtStep("c1", Lens \X (0..Limit(objectMembers)))
ReadAtSpec == Init /\ [][ReadAtNext]_vars

\* every caller, concurrently, any call
ConcSizeLists == {<<2, 1>>, <<1, 0, 2>>}
ConcLens  == {1, 2}
ConcSeeks == {<<1, SeekStart>>, <<0 - 1, SeekCurrent>>, <<0 - 1, SeekEnd>>,
              <<0, 3>>}
ConcReadAts == {<<2, 1>>, <<1, 0>>}
ConcInit == Init /\ objectMembers \in ConcSizeLists
ConcNext ==
    \E c \in Callers :
        \/ CursorStep(c, ConcLens, ConcSeeks)
        \/ ReadAtStep(c, ConcReadAts)
ConcSpec == ConcInit /\ [][ConcNext]_vars

\* one caller on a stream with an empty object in it: Read calls with every
\* buffer length at every cursor (each is a ReadAt at the cursor), Seek calls
\* from the start and the end, and ReadAt calls beside them
ZeroInit == SeqInit /\ \E k \in 1..Len(objectMembers) : objectMembers[k] = 0
ZeroSeeks(objs) ==
    ((0..SumSizes(objs)) \X {SeekStart})
    \cup {<<1, SeekCurrent>>, <<0 - 1, SeekEnd>>, <<0, SeekEnd>>,
          <<0 - SumSizes(objs) - 1, SeekEnd>>}
ZeroNext ==
    \/ CursorStep("c1", Lens, ZeroSeeks(objectMembers))
    \/ ReadAtStep("c1", ConcReadAts)
ZeroSpec == ZeroInit /\ [][ZeroNext]_vars

\* every caller, concurrently, with the scheduling the runtime gives.
\* Every fetch returns: no caller stays in the body of Read or ReadAt for
\* ever.  (This is weak fairness of ReadBody(c) and ReadAtBody(c): each is
\* enabled exactly while c is in that body, since NoFault is always among
\* the answers, and is the only step that takes c out of it.)  A caller that
\* can execute its return does (weak fairness), and a caller waiting in Lock
\* gets the mutex if it is released again and again (strong fairness:
\* sync.Mutex hands the mutex to a waiter that has waited long, so no
\* waiter is passed over for ever).
FairSizeLists == {<<1, 1>>}
FairLens  == {2}
FairSeeks == {<<0 - 1, SeekCurrent>>, <<0, 3>>}
FairReadAts == {<<1, 1>>}
FairInit == Init /\ objectMembers \in FairSizeLists
FairNext ==
    \E c \in Callers :
        \/ CursorStep(c, FairLens, FairSeeks)
        \/ ReadAtStep(c, FairReadAts)
FetchesReturn ==
    \A c \in Callers : []<>(pc[c] \notin {"Read_body", "ReadAt_body"})
Fairness ==
    \A c \in Callers :
        /\ WF_vars(ReadReturn(c))
        /\ WF_vars(SeekBody(c))
        /\ SF_vars(ReadLock(c))
        /\ SF_vars(SeekLock(c))
FairSpec == FairInit /\ [][FairNext]_vars /\ FetchesReturn /\ Fairness

\* ---- NewS3ReadSeeker ----
\* an entry of objectMembers that make() has allocated and no lookup has filled
NilObject == 0 - 1

\* the constructor is entered: the cursor is 0, objectMembers has one empty
\* entry per key; the bucket holds keys[k] bytes under key k, and the size
\* lookup of key failAt (if any) will fail
CtorInit ==
    /\ \E keys \in SizeLists : \E f \in 0..Len(keys) :
          /\ ctor = [keys |-> keys, failAt |-> f, heads |-> <<>>,
                     state |-> "building"]
          /\ objectMembers = [k \in 1..Len(keys) |-> NilObject]
    /\ globalOffset = 0
    /\ mu = "free"
    /\ pc = [c \in Callers |-> "idle"]
    /\ frame = [c \in Callers |-> NoFrame]
    /\ run = NoRun(0)

\* a loop that sets a failed key aside and goes on to the next
HeadObjectSkipsFailure ==
    /\ ctor.state = "building"
    /\ Len(ctor.heads) < Len(ctor.keys)
    /\ LET n == Len(ctor.heads) + 1 IN
       /\ ctor' = [ctor EXCEPT !.heads = Append(@, n)]
       /\ objectMembers' = IF n = ctor.failAt
                           THEN [objectMembers EXCEPT ![n] = 0]
                           ELSE [objectMembers EXCEPT ![n] = ctor.keys[n]]
    /\ UNCHANGED <<globalOffset, mu, pc, frame, run>>

\* one turn of the loop over the keys: HeadObject for the next key; its error
\* ends the constructor with (nil, err), its ContentLength fills the entry
HeadObject ==
    /\ ctor.state = "building"
    /\ Len(ctor.heads) < Len(ctor.keys)
    /\ LET n == Len(ctor.heads) + 1 IN
       IF n = ctor.failAt
       THEN /\ ctor' = [ctor EXCEPT !.heads = Append(@, n), !.state = "failed"]
            /\ UNCHANGED objectMembers
       ELSE /\ ctor' = [ctor EXCEPT !.heads = Append(@, n)]
            /\ objectMembers' = [objectMembers EXCEPT ![n] = ctor.keys[n]]
    /\ UNCHANGED <<globalOffset, mu, pc, frame, run>>

\* the loop is over: return rs, nil
NewReturn ==
    /\ ctor.state = "building"
    /\ Len(ctor.heads) = Len(ctor.keys)
    /\ ctor' = [ctor EXCEPT !.state = "ok"]
    /\ UNCHANGED <<objectMembers, globalOffset, mu, pc, frame, run>>

\* the constructor, then one caller using the stream it returned
CtorNext ==
    \/ HeadObject
    \/ NewReturn
    \/ /\ ctor.state = "ok"
       /\ \/ CursorStep("c1", ConcLens, ConcSeeks)
          \/ ReadAtStep("c1", ConcReadAts)
CtorSpec == CtorInit /\ [][CtorNext]_vars

\* ------------------------------------------------------------ properties
\* The stream the callers are promised: the flat concatenation of the
\* objects' contents in key order.
RECURSIVE FlatFrom(_, _)
FlatFrom(objs, i) ==
    IF i > Len(objs) THEN <<>>
    ELSE [j \in 1..objs[i] |-> Byte(i, j - 1)] \o FlatFrom(objs, i + 1)
Flat == FlatFrom(objectMembers, 1)
Total == Len(Flat)

\* bytes [a, b) of the flat stream
Slice(a, b) == SubSeq(Flat, a + 1, b)

\* logical offset at which object i starts
StartOf(i) == Len(Flat) - Len(FlatFrom(objectMembers, i))

Done(c, op) == pc[c] = "done" /\ frame[c].op = op
AllFetchesOk(c) == frame[c].plan = NoFault

\* C1: when every fetch succeeds, ReadAt(p, off) with 0 <= off <= total size
\* returns n = min(len(p), total - off) and p[0..n) holds bytes
\* [off, off+n) of the flat concatenation.
C1_ReadAtIsClampedSlice ==
    \A c \in Callers :
        (Done(c, "ReadAt") /\ AllFetchesOk(c) /\ frame[c].off <= Total) =>
            /\ frame[c].n = Min(frame[c].L, Total - frame[c].off)
            /\ SubSeq(frame[c].p, 1, frame[c].n)
                 = Slice(frame[c].off, frame[c].off + frame[c].n)

\* The objects holding at least one byte of [off, off+L) cut at total size
Touched(off, L) ==
    {i \in 1..Len(objectMembers) :
        /\ objectMembers[i] > 0
        /\ StartOf(i) < Min(off + L, Total)
        /\ StartOf(i) + objectMembers[i] > off}

\* The fetches a read of [off, off+L) is expected to issue: one per object
\* touched, in object order, each for the part of the range in that object
\* and filling the next slice of p.
FetchPlanOk(fs, off, L) ==
    LET last == Min(off + L, Total) IN
    /\ Len(fs) = Cardinality(Touched(off, L))
    /\ \A k \in 1..Len(fs) :
         LET f == fs[k]
             s == StartOf(f.obj)
         IN  /\ f.obj \in Touched(off, L)
             /\ k > 1 => fs[k - 1].obj < f.obj
             /\ f.lo = Max(off, s) - s
             /\ f.hi = Min(last, s + objectMembers[f.obj]) - 1 - s
             /\ f.dlo = (IF k = 1 THEN 0 ELSE fs[k - 1].dhi)
             /\ f.dhi - f.dlo = f.hi - f.lo + 1
             /\ f.dhi > f.dlo
    /\ fs # <<>> => fs[Len(fs)].dhi = last - off

\* C2: a ReadAt of at least one byte at an offset inside the stream issues
\* one fetch per object its range touches (one fetch inside one object, k+1
\* fetches across k boundaries), in object order, into contiguous slices
\* of p starting at index 0; sizes 10 and 5, 8 bytes at offset 7, fetches
\* [7,9] of the first object and then [0,4] of the second.
C2_OneFetchPerObjectTouched ==
    /\ \A c \in Callers :
         (Done(c, "ReadAt") /\ AllFetchesOk(c) /\ frame[c].L >= 1
             /\ frame[c].off < Total) =>
            FetchPlanOk(frame[c].fetches, frame[c].off, frame[c].L)
    /\ ReadAt(<<10, 5>>, 8, 7, NoFault).fetches
         = <<Fetch(1, 7, 9, 0, 3), Fetch(2, 0, 4, 3, 8)>>

C2_Witness ==
    /\ Done("c1", "ReadAt") /\ AllFetchesOk("c1")
    /\ Len(frame["c1"].fetches) = 3
    /\ frame["c1"].off >= 1

\* C3: ReadAt returns end-of-stream exactly when off is at or beyond the
\* total size, and then with zero bytes and no fetch issued.
C3_EofIffOffsetAtOrPastEnd ==
    \A c \in Callers :
        (Done(c, "ReadAt") /\ AllFetchesOk(c)) =>
            /\ frame[c].err = "EOF" <=> frame[c].off >= Total
            /\ frame[c].err = "EOF" =>
                 frame[c].n = 0 /\ frame[c].fetches = <<>>

\* the bytes the Reads of the history returned, in the order they returned
RECURSIVE CatBufs(_)
CatBufs(bufs) ==
    IF bufs = <<>> THEN <<>> ELSE Head(bufs).bytes \o CatBufs(Tail(bufs))

RECURSIVE SumLens(_)
SumLens(bufs) ==
    IF bufs = <<>> THEN 0 ELSE Head(bufs).len + SumLens(Tail(bufs))

\* C4: Read and Seek exclude each other from locking to returning.  The
\* cursor a Read passed to ReadAt is still the cursor when the Read commits,
\* and a successful Read of n bytes leaves the cursor n beyond it; the cursor
\* a Seek computed from is the cursor it replaces.  So the calls take effect
\* one after the other in the order they lock, and two concurrent Reads of
\* n1 and n2 bytes from c get [c, c+n1) and [c+n1, c+n1+n2) and leave the
\* cursor at c+n1+n2.
C4_ReadSeekAtomic ==
    /\ [](\A c \in Callers :
            /\ pc[c] \in {"Read_body", "Read_commit", "Seek_body"} => mu = c
            /\ pc[c] = "Read_commit" => globalOffset = frame[c].cur)
    /\ [][\A c \in Callers :
            /\ (pc[c] = "Read_commit" /\ pc'[c] = "done") =>
                  /\ globalOffset = frame[c].cur
                  /\ globalOffset' =
                       frame[c].cur + (IF frame[c].err = "nil" THEN frame[c].n ELSE 0)
            /\ (pc[c] = "Seek_body" /\ pc'[c] = "done") =>
                  /\ frame'[c].cur = globalOffset
                  /\ globalOffset' =
                       (IF frame'[c].err = "nil" THEN frame'[c].ret ELSE globalOffset)
            /\ pc'[c] = pc[c] =>
                  (pc[c] \in {"Read_body", "Read_commit", "Seek_body"}
                      => globalOffset' = globalOffset)]_vars

\* both callers have read: c1 got [c, c+n1), c2 got [c+n1, c+n1+n2), and
\* the cursor is c+n1+n2
C4_Witness ==
    /\ Done("c1", "Read") /\ Done("c2", "Read")
    /\ frame["c1"].err = "nil" /\ frame["c2"].err = "nil"
    /\ frame["c1"].n >= 1 /\ frame["c2"].n >= 1
    /\ frame["c1"].cur >= 1
    /\ frame["c2"].cur = frame["c1"].cur + frame["c1"].n
    /\ globalOffset = frame["c2"].cur + frame["c2"].n
    /\ frame["c2"].p = Slice(frame["c2"].cur, globalOffset)

\* C5: a successful Read advances the cursor by the bytes it returned, and
\* three successful Reads in a row from cursor 0 with buffers of a, b and c
\* bytes return together what ReadAt of a+b+c bytes at offset 0 returns and
\* leave the cursor at a+b+c.
C5_SequentialReadsAreOneReadAt ==
    /\ \A c \in Callers :
         (Done(c, "Read") /\ frame[c].err = "nil") =>
            globalOffset = frame[c].cur + frame[c].n
    /\ (run.on /\ Len(run.bufs) = 3) =>
         LET abc == SumLens(run.bufs)
             r   == ReadAt(objectMembers, abc, 0, NoFault)
         IN  /\ r.err = "nil" /\ r.n = abc
             /\ CatBufs(run.bufs) = r.p
             /\ globalOffset = abc

C5_Witness ==
    /\ run.on /\ Len(run.bufs) = 3
    /\ \A k \in 1..3 : run.bufs[k].len >= 1
    /\ run.bufs[1].len # run.bufs[2].len
    /\ Len(objectMembers) = 3
    /\ Done("c1", "Read")

\* C6: Seek(x, io.SeekStart) with 0 <= x < total size followed at once by
\* Read(p) returns the count, buffer contents and error ReadAt(p, x) returns.
C6_SeekThenReadIsReadAt ==
    \A c \in Callers :
        (Done(c, "Read") /\ frame[c].after >= 0 /\ frame[c].after < Total) =>
            LET r == ReadAt(objectMembers, frame[c].L, frame[c].after,
                            frame[c].plan)
            IN  /\ frame[c].n = r.n
                /\ frame[c].p = r.p
                /\ frame[c].err = r.err

C6_Witness ==
    /\ Done("c1", "Read")
    /\ frame["c1"].after >= 1 /\ frame["c1"].after < Total
    /\ frame["c1"].n >= 2
    /\ Len(frame["c1"].fetches) >= 2

\* C7: a Read with the cursor at or beyond the total size returns zero
\* bytes and end-of-stream, issues no fetch and leaves the cursor alone.
C7_ReadAtEndIsEof ==
    \A c \in Callers :
        (Done(c, "Read") /\ frame[c].cur >= Total) =>
            /\ frame[c].n = 0
            /\ frame[c].err = "EOF"
            /\ frame[c].fetches = <<>>
            /\ globalOffset = frame[c].cur

C7_Witness ==
    /\ Done("c1", "Read")
    /\ Total >= 1
    /\ frame["c1"].cur > Total
    /\ frame["c1"].L >= 1
    /\ frame["c1"].err = "EOF"

\* the cursor the arguments of a Seek call ask for
Asked(c) ==
    CASE frame[c].whence = SeekStart   -> frame[c].off
      [] frame[c].whence = SeekCurrent -> frame[c].cur + frame[c].off
      [] frame[c].whence = SeekEnd     -> Total + frame[c].off
      [] OTHER                         -> 0
ValidWhence(c) == frame[c].whence \in {SeekStart, SeekCurrent, SeekEnd}

\* C8: Seek fails exactly when whence is none of start, current, end or
\* the new cursor would be negative, and a failed Seek leaves the cursor at
\* its value before the call.
C8_SeekFailsIffInvalid ==
    \A c \in Callers :
        Done(c, "Seek") =>
            /\ frame[c].err # "nil" <=> (~ValidWhence(c) \/ Asked(c) < 0)
            /\ frame[c].err # "nil" => globalOffset = frame[c].cur

C8_Witness ==
    /\ Done("c1", "Seek")
    /\ frame["c1"].whence = SeekStart /\ frame["c1"].off = 0 - 1
    /\ frame["c1"].err = "invalid_offset"
    /\ globalOffset >= 1

\* C9: a successful Seek sets the cursor to, and returns, offset from the
\* start, cursor + offset from the current position, total size + offset
\* from the end, however far past the end that is; Seek(0, current)
\* returns the cursor and leaves it, Seek(-total size, end) returns 0.
C9_SeekCommitsNewCursor ==
    \A c \in Callers :
        Done(c, "Seek") =>
            /\ frame[c].err = "nil" =>
                 frame[c].ret = Asked(c) /\ globalOffset = Asked(c)
            /\ (ValidWhence(c) /\ Asked(c) > Total) => frame[c].err = "nil"
            /\ (frame[c].whence = SeekCurrent /\ frame[c].off = 0) =>
                 /\ frame[c].err = "nil"
                 /\ frame[c].ret = frame[c].cur
                 /\ globalOffset = frame[c].cur
            /\ (frame[c].whence = SeekEnd /\ frame[c].off = 0 - Total) =>
                 frame[c].err = "nil" /\ frame[c].ret = 0

C9_Witness ==
    /\ Done("c1", "Seek")
    /\ frame["c1"].whence = SeekEnd /\ frame["c1"].off = 0 - Total
    /\ Total >= 2 /\ Len(objectMembers) >= 2
    /\ frame["c1"].cur >= 1
    /\ frame["c1"].ret = 0 /\ globalOffset = 0

\* What ReadAt(p, off) with len(p) = L gives when every fetch succeeds, from
\* the flat stream alone: the bytes from off on, as far as they exist, and
\* the count L without error when the whole range exists.
FlatReadAt(L, off) ==
    LET whole == off < Total /\ off + L <= Total IN
    [n   |-> IF whole THEN L ELSE 0,
     err |-> IF whole THEN "nil" ELSE "EOF",
     p   |-> [k \in 1..L |-> IF off + k <= Total THEN Flat[off + k] ELSE None]]

\* C10: ReadAt takes no lock and leaves the cursor as it is, whatever it
\* returns, and what it returns is fixed by the object sizes and contents,
\* the offset and the buffer length, whatever the cursor is and whatever
\* Read and Seek calls run at the same time.
C10_ReadAtLeavesCursor ==
    /\ [][\A c \in Callers :
            (pc[c] = "ReadAt_body" /\ pc'[c] = "done") =>
                globalOffset' = globalOffset /\ mu' = mu]_vars
    /\ [](\A c \in Callers :
            (Done(c, "ReadAt") /\ AllFetchesOk(c)) =>
                LET r == FlatReadAt(frame[c].L, frame[c].off) IN
                /\ frame[c].n = r.n
                /\ frame[c].err = r.err
                /\ frame[c].p = r.p)

C10_Witness ==
    /\ Done("c1", "ReadAt") /\ AllFetchesOk("c1")
    /\ frame["c1"].held = "c2"
    /\ frame["c1"].cur # frame["c1"].off
    /\ frame["c1"].n >= 1
    /\ globalOffset # frame["c1"].cur

\* bytes the first k fetches of the log were asked for
RECURSIVE FetchedBy(_, _)
FetchedBy(fs, k) ==
    IF k = 0 THEN 0 ELSE FetchedBy(fs, k - 1) + (fs[k].dhi - fs[k].dlo)

\* the error Object.ReadAt gives when the service answers as plan says
ErrorOf(plan) ==
    IF plan.kind = "err" THEN "transport"
    ELSE IF plan.avail = 0 THEN "EOF" ELSE "ErrUnexpectedEOF"

\* C11: when a fetch fails, ReadAt stops there: the failing fetch is the
\* last one issued, no object is fetched twice, the error returned is the
\* fetch's error, and the count returned is the sum of the lengths of the
\* fetches that succeeded before it.
C11_FetchErrorAborts ==
    \A c \in Callers :
        (Done(c, "ReadAt") /\ ~AllFetchesOk(c)) =>
            LET fs == frame[c].fetches IN
            /\ Len(fs) = frame[c].plan.failAt
            /\ \A k \in 2..Len(fs) : fs[k - 1].obj < fs[k].obj
            /\ frame[c].err = ErrorOf(frame[c].plan)
            /\ frame[c].n = FetchedBy(fs, Len(fs) - 1)

C11_Witness ==
    /\ Done("c1", "ReadAt")
    /\ frame["c1"].plan.failAt = 2
    /\ frame["c1"].fetches[2].obj < Len(objectMembers)
    /\ objectMembers[Len(objectMembers)] >= 1
    /\ frame["c1"].L > FetchedBy(frame["c1"].fetches, 2)
    /\ frame["c1"].err = "EOF"
    /\ frame["c1"].n >= 1

\* slots of p somebody wrote
Written(p) == Cardinality({k \in 1..Len(p) : p[k] # None})

\* C12: when ReadAt returns an error, the count it returns is the number of
\* bytes written into p before the failure, those of a fetch that ended in
\* a short read included.
C12_ErrorCountIsBytesWritten ==
    \A c \in Callers :
        (Done(c, "ReadAt") /\ frame[c].err # "nil") =>
            frame[c].n = Written(frame[c].p)

\* C13: a Read returns the count and the error of its ReadAt; when that
\* error is not nil the cursor stays where it was, also when the count is
\* positive, and when it is nil the cursor has advanced by the count.
C13_ReadAdvancesOnlyOnSuccess ==
    \A c \in Callers :
        Done(c, "Read") =>
            LET r == ReadAt(objectMembers, frame[c].L, frame[c].cur,
                            frame[c].plan)
            IN  /\ frame[c].n = r.n /\ frame[c].err = r.err
                /\ frame[c].err # "nil" => globalOffset = frame[c].cur
                /\ frame[c].err = "nil" =>
                     globalOffset = frame[c].cur + frame[c].n

C13_Witness ==
    /\ Done("c1", "Read")
    /\ frame["c1"].err = "transport"
    /\ frame["c1"].n >= 1
    /\ frame["c1"].cur >= 1
    /\ globalOffset = frame["c1"].cur

\* C14: the cursor is never negative, whatever calls run and however they
\* interleave.
C14_CursorNonNegative == globalOffset >= 0

C14_Witness ==
    /\ Done("c1", "Seek") /\ frame["c1"].err = "invalid_offset"
    /\ frame["c1"].whence = SeekCurrent
    /\ Done("c2", "Read") /\ frame["c2"].err = "nil" /\ frame["c2"].n >= 1
    /\ globalOffset = 0
\* C15: the constructor looks up the size of each key once, in key order, and
\* stops at the first lookup that fails, returning the error and no stream
\* (no call is ever made); when every lookup succeeds the stream starts with
\* the cursor at 0 and one segment per key, in key order, of the size looked
\* up, and the segments never change afterwards.
C15_ConstructionLooksUpEachKeyOnce ==
    /\ [](/\ Len(ctor.heads) <= Len(ctor.keys)
          /\ \A k \in 1..Len(ctor.heads) : ctor.heads[k] = k
          /\ ctor.failAt >= 1 => Len(ctor.heads) <= ctor.failAt
          /\ ctor.state = "building" =>
                /\ Len(ctor.heads) # ctor.failAt \/ ctor.failAt = 0
                /\ globalOffset = 0
                /\ \A c \in Callers : pc[c] = "idle"
          /\ ctor.state = "failed" =>
                /\ ctor.failAt >= 1
                /\ Len(ctor.heads) = ctor.failAt
                /\ \A c \in Callers : pc[c] = "idle"
          /\ ctor.state = "ok" =>
                /\ ctor.failAt = 0
                /\ Len(ctor.heads) = Len(ctor.keys)
                /\ objectMembers = ctor.keys)
    /\ [][/\ ctor.state = "failed" => ctor'.state = "failed"
          /\ ctor'.state = "ok" /\ ctor.state # "ok" => globalOffset' = 0
          /\ ctor.state = "ok" =>
                ctor'.state = "ok" /\ objectMembers' = objectMembers]_vars

C15_Witness ==
    /\ ctor.state = "failed"
    /\ ctor.failAt = 2
    /\ Len(ctor.keys) = 3
    /\ ctor.heads = <<1, 2>>
    /\ objectMembers[1] = ctor.keys[1]
    /\ objectMembers[3] = NilObject


\* C16: every fetch issued by ReadAt, for any offset >= 0 and any buffer
\* length (0 and lengths reaching past the end of the stream included), asks
\* for an inclusive range [lo, hi] inside its object: 0 <= lo <= hi <= size-1,
\* so at least one byte is requested and none beyond the object.
C16_FetchRangeWithinSegment ==
    \A c \in Callers :
        Done(c, "ReadAt") =>
            \A k \in 1..Len(frame[c].fetches) :
                LET f == frame[c].fetches[k] IN
                /\ 0 <= f.lo
                /\ f.lo <= f.hi
                /\ f.hi <= objectMembers[f.obj] - 1

\* the stream with its empty objects removed, and the index in objs of the
\* j-th object that is left
Strip(objs) == SelectSeq(objs, LAMBDA size : size > 0)
Kept(objs, j) ==
    CHOOSE k \in 1..Len(objs) :
        objs[k] > 0 /\ Cardinality({m \in 1..k : objs[m] > 0}) = j
\* a result on Strip(objs) with its objects renumbered as in objs
Renumbered(objs, r) ==
    [n |-> r.n, err |-> r.err,
     p |-> [k \in 1..Len(r.p) |->
              IF r.p[k] = None THEN None
              ELSE Byte(Kept(objs, r.p[k][1]), r.p[k][2])],
     fetches |-> [k \in 1..Len(r.fetches) |->
                    [r.fetches[k] EXCEPT !.obj = Kept(objs, @)]]]
Outcome(c) ==
    [n |-> frame[c].n, err |-> frame[c].err, p |-> frame[c].p,
     fetches |-> frame[c].fetches]

\* C17: ReadAt never fetches from an object of size 0, wherever it sits, and
\* every ReadAt, Read and Seek returns what it returns on the stream with the
\* objects of size 0 removed (count, error, buffer, fetched ranges, cursor).
C17_EmptyObjectsTransparent ==
    \A c \in Callers :
        /\ (Done(c, "ReadAt") \/ Done(c, "Read")) =>
              LET r == ReadAt(Strip(objectMembers), frame[c].L, frame[c].off,
                              frame[c].plan)
              IN  /\ \A k \in 1..Len(frame[c].fetches) :
                        objectMembers[frame[c].fetches[k].obj] > 0
                  /\ Outcome(c) = Renumbered(objectMembers, r)
                  /\ Done(c, "Read") =>
                        globalOffset = IF r.err = "nil" THEN frame[c].cur + r.n
                                       ELSE frame[c].cur
        /\ Done(c, "Seek") =>
              LET r == SeekResult(Strip(objectMembers), frame[c].cur,
                                  frame[c].off, frame[c].whence)
              IN  /\ frame[c].ret = r.ret
                  /\ frame[c].err = r.err
                  /\ globalOffset = r.globalOffset

\* a read spanning an empty object that sits between two others
C17_Witness ==
    /\ Done("c1", "ReadAt")
    /\ Len(objectMembers) = 3
    /\ objectMembers[1] >= 1
    /\ objectMembers[2] = 0
    /\ objectMembers[3] >= 1
    /\ frame["c1"].err = "nil"
    /\ Len(frame["c1"].fetches) = 2
    /\ frame["c1"].fetches[1].obj = 1
    /\ frame["c1"].fetches[2].obj = 3

\* C18: starting at cursor 0 and calling Read with a buffer of one fixed
\* length B >= 1 until it returns io.EOF, every fetch succeeding, the counts
\* returned sum to the total size and the bytes returned, in order, are the
\* concatenation of the objects, whether or not the total is a multiple of B.
C18_DrainDeliversEveryByte ==
    \A c \in Callers :
        (/\ pc[c] = "Read_commit"
         /\ frame[c].err = "EOF"
         /\ AllFetchesOk(c)
         /\ frame[c].L >= 1
         /\ run.on
         /\ \A k \in 1..Len(run.bufs) : run.bufs[k].len = frame[c].L) =>
            /\ Len(CatBufs(run.bufs)) + frame[c].n = Total
            /\ CatBufs(run.bufs) \o SubSeq(frame[c].p, 1, frame[c].n) = Flat

\* C19: Read and Seek release the mutex on every return path (success,
\* io.EOF, fetch error, invalid whence, negative offset), and Read does not
\* lock again when it calls ReadAt; so, every fetch returning, every Read,
\* Seek and ReadAt call of concurrent callers completes: the mutex is held
\* only by a caller between its Lock and its return, and never left held.
InLockedCall(c) == pc[c] \in {"Read_body", "Read_commit", "Seek_body"}
InCall(c) == pc[c] \notin {"idle", "done"}
C19_EveryCallCompletes ==
    /\ [](\A c \in Callers : mu = c <=> InLockedCall(c))
    /\ [](mu \in Callers \cup {"free"})
    /\ \A c \in Callers : InCall(c) ~> (pc[c] = "done" /\ mu # c)

\* a caller waits in Seek for the mutex while the other is returning a fetch
\* error from Read
C19_Witness ==
    /\ pc["c1"] = "Seek_lock"
    /\ mu = "c2"
    /\ pc["c2"] = "Read_commit"
    /\ frame["c2"].err = "transport"
    /\ Done("c1", "Seek") = FALSE

====
